---------------------------- MODULE Spec2Model ----------------------------
(***************************************************************************)
(* The ledger of blockchain_sim.py: class Blockchain (chain, utxos,        *)
(* mempool, difficulty; genesis, add_tx, verify_tx, mine_block, apply_tx)  *)
(* and the transaction builder create_tx.                                  *)
(*                                                                         *)
(* Representation.                                                         *)
(*  - A Python string is a sequence of character codes: 0..9 are the       *)
(*    decimal digits, 10..15 the hex digits a..f, larger codes stand for   *)
(*    the addresses, the JSON keys and the JSON punctuation.               *)
(*  - A dict that the code iterates (self.utxos) is a sequence of its     *)
(*    values in insertion order, with unique (txid, vout) keys.            *)
(*  - Amounts are integers in units of 0.0001, so round(x, 4) is the       *)
(*    identity and the builder's fee is 1.                                 *)
(*  - hashlib.sha256(s).hexdigest() is two leading hex characters          *)
(*    computed from s, followed by s itself: the digest has digits that    *)
(*    startswith() can test, and it is collision free, as SHA-256 is       *)
(*    taken to be.                                                         *)
(*  - tx["signature"] is written by create_tx and read by no ledger        *)
(*    operation; it is left out of the transaction record.                 *)
(***************************************************************************)
EXTENDS Integers, Sequences, FiniteSets

VARIABLES
    chain,       \* self.chain: sequence of sealed blocks
    utxos,       \* self.utxos: insertion-ordered dict, as a sequence of entries
    mempool,     \* self.mempool: sequence of pending transactions
    difficulty,  \* self.difficulty
    mine,        \* the frame of a running mine_block call (pc "idle" when none)
    last         \* the last completed call: name, arguments, result, state before

vars == <<chain, utxos, mempool, difficulty, mine, last>>

---------------------------------------------------------------------------
(* Bounds and input sets *)

MaxChain == 2       \* mine_block is called at most this many times
MaxMempool == 2     \* add_tx is called only while the mempool is shorter
MaxTxs == 4         \* ... and while fewer transactions than this were admitted
MaxTxsBuild == 2    \* the same, where the builder makes the transactions
MaxTxsConc == 2     \* the same, where add_tx runs while mine_block does

Addresses == {"A", "B"}          \* wallet.address of the wallets in play
MinerAddress == "M"              \* miner_wallet.address
Difficulties == {0, 1}           \* Blockchain(difficulty=...)
GenesisAmounts == {0, 1, 4}      \* genesis(wallet, amount)
PayAmounts == {1}                \* amounts in create_tx's recipients
RawAmounts == {0, 2}             \* output amounts of hand-made transactions
RawPayees == {"B"}               \* output addresses of hand-made transactions
Payees == {"A", "B"}             \* addresses in create_tx's recipients
Times == {1}                     \* clock readings (time.time(), utcnow())

Fee == 1            \* the 0.0001 of create_tx, in units of 0.0001

---------------------------------------------------------------------------
(* Strings *)

\* str(n) for a non-negative int: its decimal digits.
RECURSIVE Str(_)
Str(n) == IF n < 10 THEN <<n>> ELSE Str(n \div 10) \o <<n % 10>>

\* The characters that are not digits: addresses and JSON tokens.
Chr(name) ==
    CASE name = "A" -> 20 [] name = "B" -> 21 [] name = "C" -> 22
      [] name = "M" -> 23
      [] name = "genesis" -> 30
      [] name = "inputs" -> 31 [] name = "outputs" -> 32
      [] name = "timestamp" -> 33 [] name = "txid" -> 34
      [] name = "vout" -> 35 [] name = "address" -> 36
      [] name = "amount" -> 37 [] name = "miner" -> 38
      [] name = "nonce" -> 39 [] name = "tx" -> 40
      [] name = "[" -> 41 [] name = "]" -> 42
      [] name = "{" -> 43 [] name = "}" -> 44
      [] name = "hash" -> 45

\* Concatenation of a sequence of strings.
RECURSIVE Concat(_)
Concat(ss) == IF ss = <<>> THEN <<>> ELSE Head(ss) \o Concat(Tail(ss))

\* Sum of f[i].amount over a sequence of records with an amount field.
RECURSIVE SumAmounts(_)
SumAmounts(rs) == IF rs = <<>> THEN 0 ELSE Head(rs).amount + SumAmounts(Tail(rs))

---------------------------------------------------------------------------
(* hashlib.sha256(...).hexdigest() *)

\* The leading hex characters of the digest of s (two of them).
HexDigits(s) ==
    LET n == Len(s)
        a == IF n >= 1 THEN s[n] ELSE 0
        b == IF n >= 2 THEN s[n - 1] ELSE 0
        c == IF n >= 3 THEN s[n - 2] ELSE 0
        v == (n * 7 + a * 37 + b * 11 + c * 101 + 5) % (16 * 16)
    IN  <<v \div 16, v % 16>>

sha256_hexdigest(s) == HexDigits(s) \o s

\* hash_try.startswith("0" * d)
StartsWithZeros(h, d) == d <= Len(h) /\ \A i \in 1..d : h[i] = 0

---------------------------------------------------------------------------
(* json.dumps(..., sort_keys=True) *)

JsonInput(i) == <<Chr("{"), Chr("txid")>> \o i.txid \o <<Chr("vout")>> \o Str(i.vout) \o <<Chr("}")>>

JsonOutput(o) == <<Chr("{"), Chr("address"), Chr(o.address), Chr("amount")>> \o Str(o.amount) \o <<Chr("}")>>

JsonInputs(ins) == <<Chr("[")>> \o Concat([k \in DOMAIN ins |-> JsonInput(ins[k])]) \o <<Chr("]")>>

JsonOutputs(outs) == <<Chr("[")>> \o Concat([k \in DOMAIN outs |-> JsonOutput(outs[k])]) \o <<Chr("]")>>

\* The transaction as create_tx serializes it, before txid is set (line 154).
JsonUnsignedTx(ins, outs, ts) ==
    <<Chr("{"), Chr("inputs")>> \o JsonInputs(ins) \o <<Chr("outputs")>> \o JsonOutputs(outs)
        \o <<Chr("timestamp")>> \o Str(ts) \o <<Chr("}")>>

\* A complete transaction, as it appears inside a block.
JsonTx(tx) ==
    <<Chr("{"), Chr("inputs")>> \o JsonInputs(tx.inputs) \o <<Chr("outputs")>> \o JsonOutputs(tx.outputs)
        \o <<Chr("timestamp")>> \o Str(tx.timestamp) \o <<Chr("txid")>> \o tx.txid \o <<Chr("}")>>

\* json.dumps(block, sort_keys=True) of {timestamp, tx, miner, nonce}.
JsonBlock(b) ==
    <<Chr("{"), Chr("miner"), Chr(b.miner), Chr("nonce")>> \o Str(b.nonce)
        \o <<Chr("timestamp")>> \o Str(b.timestamp)
        \o <<Chr("tx"), Chr("[")>> \o Concat([k \in DOMAIN b.tx |-> JsonTx(b.tx[k])]) \o <<Chr("]"), Chr("}")>>

\* json.dump(self.chain, f, indent=2), line 118: the blocks in list order,
\* each with its keys in insertion order; the indentation is left out.
JsonDumpBlock(b) ==
    <<Chr("{"), Chr("timestamp")>> \o Str(b.timestamp)
        \o <<Chr("tx"), Chr("[")>> \o Concat([k \in DOMAIN b.tx |-> JsonTx(b.tx[k])]) \o <<Chr("]")>>
        \o <<Chr("miner"), Chr(b.miner), Chr("nonce")>> \o Str(b.nonce)
        \o <<Chr("hash")>> \o b.hash \o <<Chr("}")>>

JsonDumpChain(ch) ==
    <<Chr("[")>> \o Concat([k \in DOMAIN ch |-> JsonDumpBlock(ch[k])]) \o <<Chr("]")>>

---------------------------------------------------------------------------
(* The UTXO dict *)

KeyOf(e) == <<e.txid, e.vout>>

Keys(u) == {KeyOf(u[k]) : k \in DOMAIN u}

\* key in self.utxos
Has(u, key) == \E k \in DOMAIN u : KeyOf(u[k]) = key

\* self.utxos[key]
Get(u, key) == u[CHOOSE k \in DOMAIN u : KeyOf(u[k]) = key]

\* del self.utxos[key]
DictDel(u, key) ==
    LET Keep(e) == KeyOf(e) # key IN SelectSeq(u, Keep)

\* self.utxos[key] = e: a present key keeps its place, a new key goes last.
DictSet(u, e) ==
    IF Has(u, KeyOf(e))
    THEN [k \in DOMAIN u |-> IF KeyOf(u[k]) = KeyOf(e) THEN e ELSE u[k]]
    ELSE Append(u, e)

\* sum(u["amount"] for u in chain.utxos.values() if u["address"] == a)
Balance(u, a) ==
    LET Owned(e) == e.address = a IN SumAmounts(SelectSeq(u, Owned))

TotalValue(u) == SumAmounts(u)

---------------------------------------------------------------------------
(* Blockchain.verify_tx, Blockchain.apply_tx *)

\* The entries the inputs of tx resolve to, in input order (all present).
Resolved(u, tx) == [k \in DOMAIN tx.inputs |-> Get(u, KeyOf(tx.inputs[k]))]

\* The return statement verify_tx leaves by: line 68 inside the input loop, at
\* the first input that is not in the dict, or line 74 after both loops.
VerifyExit(u, tx) ==
    IF \E k \in DOMAIN tx.inputs : ~Has(u, KeyOf(tx.inputs[k])) THEN "line 68" ELSE "line 74"

\* verify_tx without the `return False` of line 68: a missing input adds nothing.
verify_tx_skips_missing(u, tx) ==
    LET Present(i) == Has(u, KeyOf(i))
        found == SelectSeq(tx.inputs, Present)
    IN  SumAmounts([k \in DOMAIN found |-> Get(u, KeyOf(found[k]))]) >= SumAmounts(tx.outputs)

\* verify_tx with `return True` in place of the comparison of line 74.
verify_tx_ignores_funds(u, tx) == VerifyExit(u, tx) = "line 74"

verify_tx(u, tx) ==
    IF VerifyExit(u, tx) = "line 68"
    THEN FALSE
    ELSE SumAmounts(Resolved(u, tx)) >= SumAmounts(tx.outputs)

\* Lines 104-107: delete every input that is present.
RECURSIVE DeleteInputs(_, _)
DeleteInputs(u, ins) ==
    IF ins = <<>> THEN u
    ELSE DeleteInputs(IF Has(u, KeyOf(Head(ins))) THEN DictDel(u, KeyOf(Head(ins))) ELSE u,
                      Tail(ins))

\* Lines 108-114: store output idx of the transaction under (txid, idx).
RECURSIVE InsertOutputs(_, _, _, _)
InsertOutputs(u, txid, outs, idx) ==
    IF idx >= Len(outs) THEN u
    ELSE InsertOutputs(
            DictSet(u, [txid |-> txid, vout |-> idx,
                        address |-> outs[idx + 1].address, amount |-> outs[idx + 1].amount]),
            txid, outs, idx + 1)

apply_tx(u, tx) == InsertOutputs(DeleteInputs(u, tx.inputs), tx.txid, tx.outputs, 0)

\* for tx in txs: self.apply_tx(tx)
RECURSIVE ApplyAll(_, _)
ApplyAll(u, txs) == IF txs = <<>> THEN u ELSE ApplyAll(apply_tx(u, Head(txs)), Tail(txs))

---------------------------------------------------------------------------
(* Blockchain.mine_block: the block skeleton and the proof-of-work loop *)

Skeleton(ts, txs, miner) == [timestamp |-> ts, tx |-> txs, miner |-> miner, nonce |-> 0]

\* hashlib.sha256((block_json + str(nonce)).encode()).hexdigest()
HashTry(block_json, nonce) == sha256_hexdigest(block_json \o Str(nonce))

\* The while loop of lines 87-92 from `nonce` on: the winning nonce and hash.
RECURSIVE ProofOfWork(_, _, _)
RECURSIVE ProofOfWork_counts_winner(_, _, _)

\* The loop with `block["nonce"] += 1` placed before the test's break.
ProofOfWork_counts_winner(block_json, d, nonce) ==
    IF StartsWithZeros(HashTry(block_json, nonce), d)
    THEN [nonce |-> nonce + 1, hash |-> HashTry(block_json, nonce)]
    ELSE ProofOfWork_counts_winner(block_json, d, nonce + 1)

ProofOfWork(block_json, d, nonce) ==
    IF StartsWithZeros(HashTry(block_json, nonce), d)
    THEN [nonce |-> nonce, hash |-> HashTry(block_json, nonce)]
    ELSE ProofOfWork(block_json, d, nonce + 1)

\* The block as it is appended: the skeleton with the winning nonce and hash.
Sealed(skel, won) ==
    [timestamp |-> skel.timestamp, tx |-> skel.tx, miner |-> skel.miner,
     nonce |-> won.nonce, hash |-> won.hash]

---------------------------------------------------------------------------
(* create_tx *)

\* The loop of lines 134-139 from entry k on: the inputs chosen and their sum.
RECURSIVE SelectInputs(_, _, _, _, _, _)
RECURSIVE SelectInputs_no_break(_, _, _, _, _, _)

\* The loop without the test and break of lines 138-139.
SelectInputs_no_break(u, address, need, k, inputs, total_in) ==
    IF k > Len(u) THEN [inputs |-> inputs, total_in |-> total_in]
    ELSE IF u[k].address # address
         THEN SelectInputs_no_break(u, address, need, k + 1, inputs, total_in)
         ELSE SelectInputs_no_break(u, address, need, k + 1,
                                    Append(inputs, [txid |-> u[k].txid, vout |-> u[k].vout]),
                                    total_in + u[k].amount)

SelectInputs(u, address, need, k, inputs, total_in) ==
    IF k > Len(u) THEN [inputs |-> inputs, total_in |-> total_in]
    ELSE IF u[k].address # address
         THEN SelectInputs(u, address, need, k + 1, inputs, total_in)
         ELSE IF total_in + u[k].amount >= need
              THEN [inputs |-> Append(inputs, [txid |-> u[k].txid, vout |-> u[k].vout]),
                    total_in |-> total_in + u[k].amount]
              ELSE SelectInputs(u, address, need, k + 1,
                                Append(inputs, [txid |-> u[k].txid, vout |-> u[k].vout]),
                                total_in + u[k].amount)

\* Lines 146-152 with the fee left out of the change.
BuildOutputs_no_fee(address, recipients, total_in) ==
    IF total_in - SumAmounts(recipients) > 0
    THEN Append(recipients, [address |-> address, amount |-> total_in - SumAmounts(recipients)])
    ELSE recipients

\* Lines 146-152 with `if change >= 0` for `if change > 0`.
BuildOutputs_zero_change(address, recipients, total_in) ==
    IF total_in - SumAmounts(recipients) - Fee >= 0
    THEN Append(recipients, [address |-> address,
                             amount |-> total_in - SumAmounts(recipients) - Fee])
    ELSE recipients

\* Lines 146-152: the recipients, then the change when it is positive.
BuildOutputs(address, recipients, total_in) ==
    LET change == total_in - SumAmounts(recipients) - Fee
    IN  IF change > 0
        THEN Append(recipients, [address |-> address, amount |-> change])
        ELSE recipients

MakeTx(ins, outs, ts) ==
    [inputs |-> ins, outputs |-> outs, timestamp |-> ts,
     txid |-> sha256_hexdigest(JsonUnsignedTx(ins, outs, ts))]

\* create_tx(wallet, blockchain, recipients): <<>> is None, <<tx>> a transaction.
create_tx(address, u, recipients, ts) ==
    LET sel == SelectInputs(u, address, SumAmounts(recipients), 1, <<>>, 0)
    IN  IF sel.total_in = 0 THEN <<>>
        ELSE <<MakeTx(sel.inputs, BuildOutputs(address, recipients, sel.total_in), ts)>>

---------------------------------------------------------------------------
(* The calls a driver can make *)

\* All sequences over S of the lengths in ns.
SeqsOf(S, ns) == UNION {[1..n -> S] : n \in ns}

\* "genesis" + str(n)
GenesisTxid(n) == <<Chr("genesis")>> \o Str(n)

\* The places <<block, index>> of the transactions recorded in the chain.
TxSlots(ch) == {x \in (DOMAIN ch) \X (1..MaxMempool) : x[2] \in DOMAIN ch[x[1]].tx}

TxAt(ch, x) == ch[x[1]].tx[x[2]]

InputRefs(tx) == {tx.inputs[k] : k \in DOMAIN tx.inputs}

\* Every (txid, vout) that a transaction in the chain lists as an input.
SpentRefs(ch) == UNION {InputRefs(TxAt(ch, x)) : x \in TxSlots(ch)}

\* The references a hand-made transaction may name: live ones and spent ones.
RefPool == {[txid |-> u.txid, vout |-> u.vout] : u \in {utxos[k] : k \in DOMAIN utxos}}
               \cup SpentRefs(chain)

\* Hand-made transactions: any inputs, any outputs, the content hash as txid.
RawInputs == {<<>>} \cup {<<r>> : r \in RefPool} \cup {<<r, r>> : r \in RefPool}

RawTxs ==
    {MakeTx(ins, outs, ts) :
        ins \in RawInputs,
        outs \in SeqsOf([address : RawPayees, amount : RawAmounts], {1}),
        ts \in Times}

RecipientLists == SeqsOf([address : Payees, amount : PayAmounts], {0, 1, 2})

\* The frame of a mine_block call in progress: where it stands, its locals
\* block and block_json, the hash that met the target, the position of the
\* iterator of `for tx in self.mempool`, the transactions apply_tx was called
\* with, the transactions add_tx admitted since the call began, and the UTXO
\* dict the call started from.
Frame(pc, block, block_json, hash, k, applied, during, before) ==
    [pc |-> pc, block |-> block, block_json |-> block_json, hash |-> hash,
     k |-> k, applied |-> applied, during |-> during, before |-> before]

\* No mine_block call is in progress.
NoFrame == Frame("idle", <<>>, <<>>, <<>>, 0, <<>>, <<>>, <<>>)

\* Python's None, among returned values: <<v>> is the value v.
None == <<>>

\* The value of the expression mine_block(...) that appended `block`: the body
\* (lines 76-101) ends on the print of line 101 and holds no return statement.
mine_block_result(block) == None

\* The record of a completed call: its name, its boolean result, the return
\* statement add_tx's verify_tx left by, what it put out (the value create_tx
\* or mine_block returned, the files export_data wrote), and (for mine_block)
\* the UTXO dict the call started from.
Call(op, ok, exit, out, before) ==
    [op |-> op, ok |-> ok, exit |-> exit, out |-> out, before |-> before]

\* The number of transactions in the chain's blocks.
ChainTxCount(ch) == Len(Concat([b \in DOMAIN ch |-> ch[b].tx]))

\* Blockchain(difficulty=d) for some d in D.
Init(D) ==
    /\ chain = <<>>
    /\ utxos = <<>>
    /\ mempool = <<>>
    /\ difficulty \in D
    /\ mine = NoFrame
    /\ last = Call("init", TRUE, "-", <<>>, <<>>)

\* Blockchain.genesis(wallet, amount)
Genesis(w, amount) ==
    /\ mine.pc = "idle"
    /\ utxos' = DictSet(utxos, [txid |-> GenesisTxid(Len(chain) + 1), vout |-> 0,
                                address |-> w, amount |-> amount])
    /\ last' = Call("genesis", TRUE, "-", <<>>, <<>>)
    /\ UNCHANGED <<chain, mempool, difficulty, mine>>

\* Blockchain.add_tx(tx)
AddTx(tx) ==
    /\ mine.pc = "idle"
    /\ Len(mempool) < MaxMempool
    /\ ChainTxCount(chain) + Len(mempool) < MaxTxs
    /\ mempool' = IF verify_tx(utxos, tx) THEN Append(mempool, tx) ELSE mempool
    /\ last' = Call("add_tx", verify_tx(utxos, tx), VerifyExit(utxos, tx), <<>>, <<>>)
    /\ UNCHANGED <<chain, utxos, difficulty, mine>>

\* create_tx with `del blockchain.utxos[key]` for each input it selects.
CreateTx_takes_inputs(w, recipients, ts) ==
    /\ mine.pc = "idle"
    /\ last' = Call("create_tx", create_tx(w, utxos, recipients, ts) # <<>>, "-",
                    create_tx(w, utxos, recipients, ts), <<>>)
    /\ utxos' = DeleteInputs(utxos, SelectInputs(utxos, w, SumAmounts(recipients), 1, <<>>, 0).inputs)
    /\ UNCHANGED <<chain, mempool, difficulty, mine>>

\* tx = create_tx(wallet, chain, recipients)
CreateTx(w, recipients, ts) ==
    /\ mine.pc = "idle"
    /\ last' = Call("create_tx", create_tx(w, utxos, recipients, ts) # <<>>, "-",
                    create_tx(w, utxos, recipients, ts), <<>>)
    /\ UNCHANGED <<chain, utxos, mempool, difficulty, mine>>

\* chain.add_tx(tx) with the transaction create_tx has just returned
AddBuiltTx ==
    /\ last.op = "create_tx"
    /\ last.out # <<>>
    /\ AddTx(last.out[1])

\* The rows csv.writer writes to utxos.csv (lines 121-124), each the strings
\* of its fields: the header, then one row per entry in iteration order.
CsvHeader == <<<<Chr("txid")>>, <<Chr("vout")>>, <<Chr("address")>>, <<Chr("amount")>>>>

CsvRow(e) == <<e.txid, Str(e.vout), <<Chr(e.address)>>, Str(e.amount)>>

\* export_data with the rows written from the last entry to the first.
export_data_rows_reversed(ch, u) ==
    [chain_json |-> JsonDumpChain(ch),
     utxos_csv |-> <<CsvHeader>> \o [k \in DOMAIN u |-> CsvRow(u[Len(u) + 1 - k])]]

\* The two files export_data (lines 116-126) writes.
export_data(ch, u) ==
    [chain_json |-> JsonDumpChain(ch),
     utxos_csv |-> <<CsvHeader>> \o [k \in DOMAIN u |-> CsvRow(u[k])]]

\* Blockchain.export_data()
ExportData ==
    /\ mine.pc = "idle"
    /\ last' = Call("export_data", TRUE, "-", <<export_data(chain, utxos)>>, <<>>)
    /\ UNCHANGED <<chain, utxos, mempool, difficulty, mine>>

\* mine_block with a reward entry for the miner inserted after line 96.
MineBlock_pays_miner(miner, ts) ==
    /\ mine.pc = "idle"
    /\ Len(chain) < MaxChain
    /\ LET skel == Skeleton(ts, mempool, miner)
           won == ProofOfWork(JsonBlock(skel), difficulty, 0)
       IN  /\ utxos' = DictSet(ApplyAll(utxos, mempool),
                               [txid |-> won.hash, vout |-> 0, address |-> miner,
                                amount |-> Fee * Len(mempool)])
           /\ mempool' = <<>>
           /\ chain' = Append(chain, Sealed(skel, won))
           /\ last' = Call("mine_block", TRUE, "-", mine_block_result(Sealed(skel, won)), utxos)
    /\ UNCHANGED <<difficulty, mine>>

\* mine_block with `self.chain = [block]` for line 99.
MineBlock_restarts_chain(miner, ts) ==
    /\ mine.pc = "idle"
    /\ Len(chain) < MaxChain
    /\ LET skel == Skeleton(ts, mempool, miner)
           won == ProofOfWork(JsonBlock(skel), difficulty, 0)
       IN  /\ utxos' = ApplyAll(utxos, mempool)
           /\ mempool' = <<>>
           /\ chain' = <<Sealed(skel, won)>>
           /\ last' = Call("mine_block", TRUE, "-", mine_block_result(Sealed(skel, won)), utxos)
    /\ UNCHANGED <<difficulty, mine>>

\* Blockchain.mine_block(miner_wallet), run to completion
MineBlock(miner, ts) ==
    /\ mine.pc = "idle"
    /\ Len(chain) < MaxChain
    /\ LET skel == Skeleton(ts, mempool, miner)
           won == ProofOfWork(JsonBlock(skel), difficulty, 0)
       IN  /\ utxos' = ApplyAll(utxos, mempool)
           /\ mempool' = <<>>
           /\ chain' = Append(chain, Sealed(skel, won))
           /\ last' = Call("mine_block", TRUE, "-", mine_block_result(Sealed(skel, won)), utxos)
    /\ UNCHANGED <<difficulty, mine>>

\* The ledger driven with hand-made transactions.
Next ==
    \/ Len(chain) = 0 /\ \E amount \in {1} : Genesis("A", amount)
    \/ \E tx \in RawTxs : AddTx(tx)
    \/ \E ts \in Times : MineBlock(MinerAddress, ts)
    \/ ExportData

Spec == Init(Difficulties) /\ [][Next]_vars

\* The ledger driven through the builder, as the simulation does (lines 167-186).
NextBuild ==
    \/ Len(chain) = 0 /\ \E w \in Addresses, amount \in GenesisAmounts : Genesis(w, amount)
    \/ \E w \in Addresses, recipients \in RecipientLists, ts \in Times : CreateTx(w, recipients, ts)
    \/ ChainTxCount(chain) + Len(mempool) < MaxTxsBuild /\ AddBuiltTx
    \/ \E ts \in Times : MineBlock(MinerAddress, ts)

SpecBuild == Init({1}) /\ [][NextBuild]_vars

---------------------------------------------------------------------------
(* mine_block statement by statement, with add_tx called from another     *)
(* thread while it runs                                                    *)

\* Lines 77-85: the block dict with the copy of the mempool, its JSON.
MineBegin(miner, ts) ==
    /\ mine.pc = "idle"
    /\ Len(chain) < MaxChain
    /\ mine' = Frame("pow", Skeleton(ts, mempool, miner),
                     JsonBlock(Skeleton(ts, mempool, miner)), <<>>, 1, <<>>, <<>>, utxos)
    /\ UNCHANGED <<chain, utxos, mempool, difficulty, last>>

\* One turn of the while loop with `block["nonce"] += 2` for line 92.
MineTry_by_two ==
    /\ mine.pc = "pow"
    /\ LET hash_try == HashTry(mine.block_json, mine.block.nonce)
       IN  mine' = IF StartsWithZeros(hash_try, difficulty)
                   THEN [mine EXCEPT !.hash = hash_try, !.pc = "apply"]
                   ELSE [mine EXCEPT !.block.nonce = @ + 2]
    /\ UNCHANGED <<chain, utxos, mempool, difficulty, last>>

\* Lines 87-92: one turn of the while loop.
MineTry ==
    /\ mine.pc = "pow"
    /\ LET hash_try == HashTry(mine.block_json, mine.block.nonce)
       IN  mine' = IF StartsWithZeros(hash_try, difficulty)
                   THEN [mine EXCEPT !.hash = hash_try, !.pc = "apply"]
                   ELSE [mine EXCEPT !.block.nonce = @ + 1]
    /\ UNCHANGED <<chain, utxos, mempool, difficulty, last>>

\* Lines 95-96: one turn of `for tx in self.mempool`, whose list iterator
\* reads self.mempool[k] while k is within the list as it is now.
MineApply ==
    /\ mine.pc = "apply"
    /\ IF mine.k <= Len(mempool)
       THEN /\ utxos' = apply_tx(utxos, mempool[mine.k])
            /\ mine' = [mine EXCEPT !.k = @ + 1, !.applied = Append(@, mempool[mine.k])]
       ELSE /\ utxos' = utxos
            /\ mine' = [mine EXCEPT !.pc = "clear"]
    /\ UNCHANGED <<chain, mempool, difficulty, last>>

\* Line 98: self.mempool = []
MineClear ==
    /\ mine.pc = "clear"
    /\ mempool' = <<>>
    /\ mine' = [mine EXCEPT !.pc = "append"]
    /\ UNCHANGED <<chain, utxos, difficulty, last>>

\* Line 99: self.chain.append(block), and the call returns.
MineAppend ==
    /\ mine.pc = "append"
    /\ chain' = Append(chain, Sealed(mine.block, [nonce |-> mine.block.nonce, hash |-> mine.hash]))
    /\ mine' = NoFrame
    /\ last' = Call("mine_block", TRUE, "-",
                    mine_block_result(Sealed(mine.block, [nonce |-> mine.block.nonce,
                                                          hash |-> mine.hash])),
                    mine.before)
    /\ UNCHANGED <<utxos, mempool, difficulty>>

\* add_tx(tx), lines 56-60, run by another thread between two statements of
\* a mine_block call that has copied the mempool and not yet cleared it.
AddTxDuring(tx) ==
    /\ mine.pc \in {"pow", "apply", "clear"}
    /\ Len(mempool) < MaxMempool
    /\ mempool' = IF verify_tx(utxos, tx) THEN Append(mempool, tx) ELSE mempool
    /\ mine' = [mine EXCEPT !.during = IF verify_tx(utxos, tx) THEN Append(@, tx) ELSE @]
    /\ last' = Call("add_tx", verify_tx(utxos, tx), VerifyExit(utxos, tx), <<>>, <<>>)
    /\ UNCHANGED <<chain, utxos, difficulty>>

NextConc ==
    \/ Len(chain) = 0 /\ \E amount \in {1} : Genesis("A", amount)
    \/ ChainTxCount(chain) + Len(mempool) < MaxTxsConc /\ \E tx \in RawTxs : AddTx(tx)
    \/ /\ mine.pc # "idle"
       /\ ChainTxCount(chain) + Len(mine.block.tx) + Len(mine.during) < MaxTxsConc
       /\ \E tx \in RawTxs : AddTxDuring(tx)
    \/ \E ts \in Times : MineBegin(MinerAddress, ts)
    \/ MineTry
    \/ MineApply
    \/ MineClear
    \/ MineAppend

SpecConc == Init({1}) /\ [][NextConc]_vars

\* mine_block statement by statement, every call run to completion before
\* the next begins.
NextSteps ==
    \/ Len(chain) = 0 /\ \E amount \in {1} : Genesis("A", amount)
    \/ ChainTxCount(chain) + Len(mempool) < MaxTxsConc /\ \E tx \in RawTxs : AddTx(tx)
    \/ \E ts \in Times : MineBegin(MinerAddress, ts)
    \/ MineTry
    \/ MineApply
    \/ MineClear
    \/ MineAppend

SpecSteps == Init(Difficulties) /\ [][NextSteps]_vars

---------------------------------------------------------------------------
(* Claims *)

\* Some input of tx is not a key of the dict u.
SomeInputMissing(u, tx) == \E k \in DOMAIN tx.inputs : ~Has(u, KeyOf(tx.inputs[k]))

\* C1: no two transactions recorded in the chain, in the same block or in
\* different blocks, list the same (txid, vout) among their inputs.
C1_NoDoubleSpend ==
    \A x, y \in TxSlots(chain) :
        x # y => InputRefs(TxAt(chain, x)) \cap InputRefs(TxAt(chain, y)) = {}

\* C2: a mine_block call never increases the sum of the amounts in the UTXO
\* dict, whatever the mempool holds, and add_tx never changes that sum.
C2_ValueConserved ==
    [][/\ last'.op = "mine_block" => TotalValue(utxos') <= TotalValue(utxos)
       /\ last'.op = "add_tx" => TotalValue(utxos') = TotalValue(utxos)]_vars

\* C3: add_tx of a transaction with an input that is not in the UTXO dict
\* returns False and leaves the UTXO dict, the mempool and the chain as they were.
C3_MissingInputRejected ==
    [][\A tx \in RawTxs :
          (AddTx(tx) /\ SomeInputMissing(utxos, tx))
              => (~last'.ok /\ utxos' = utxos /\ mempool' = mempool /\ chain' = chain)]_vars

\* C3 witness: add_tx has just left verify_tx by the missing-input return, with
\* a UTXO dict and a mempool that are not empty.
C3_Witness ==
    /\ last.op = "add_tx" /\ last.exit = "line 68" /\ ~last.ok
    /\ utxos # <<>> /\ mempool # <<>>

\* C4: add_tx returns True, and appends the transaction, only if the amounts
\* its inputs resolve to sum to at least its output amounts; when every input
\* resolves and the sum is smaller, it returns False and appends nothing.
C4_FundsChecked ==
    [][\A tx \in RawTxs :
          AddTx(tx) =>
            /\ last'.ok =>
                 /\ ~SomeInputMissing(utxos, tx)
                 /\ SumAmounts(Resolved(utxos, tx)) >= SumAmounts(tx.outputs)
                 /\ mempool' = Append(mempool, tx)
            /\ (~SomeInputMissing(utxos, tx)
                  /\ SumAmounts(Resolved(utxos, tx)) < SumAmounts(tx.outputs))
                 => (~last'.ok /\ mempool' = mempool)]_vars

\* C4 witness: add_tx has just rejected a transaction whose inputs all resolve
\* (verify_tx reached line 74), while another transaction is pending.
C4_Witness ==
    /\ last.op = "add_tx" /\ last.exit = "line 74" /\ ~last.ok
    /\ mempool # <<>>

\* C5: after mine_block the mempool is empty, the chain is one block longer,
\* every input of an included transaction is absent from the UTXO dict, and every
\* output idx of an included transaction is stored under (txid, idx) with the
\* declared address and amount.
C5_MineBlockPostcondition ==
    [][last'.op = "mine_block" =>
          /\ mempool' = <<>>
          /\ Len(chain') = Len(chain) + 1
          /\ \A t \in DOMAIN chain'[Len(chain')].tx :
                LET tx == chain'[Len(chain')].tx[t]
                IN  /\ \A k \in DOMAIN tx.inputs : ~Has(utxos', KeyOf(tx.inputs[k]))
                    /\ \A k \in DOMAIN tx.outputs :
                          /\ Has(utxos', <<tx.txid, k - 1>>)
                          /\ Get(utxos', <<tx.txid, k - 1>>).address = tx.outputs[k].address
                          /\ Get(utxos', <<tx.txid, k - 1>>).amount = tx.outputs[k].amount]_vars

\* C6: once a (txid, vout) has been listed as an input by a transaction of a
\* mined block, every add_tx of a transaction that lists it returns False and
\* leaves the chain and the mempool as they were.
C6_SpentStaysSpent ==
    [][\A tx \in RawTxs :
          (AddTx(tx) /\ InputRefs(tx) \cap SpentRefs(chain) # {})
              => (~last'.ok /\ mempool' = mempool /\ chain' = chain)]_vars

\* The block's own {timestamp, tx, miner, nonce} fields.
OwnFields(b) == [timestamp |-> b.timestamp, tx |-> b.tx, miner |-> b.miner, nonce |-> b.nonce]

\* C7 as claimed: every block's hash is the digest of the serialization of its
\* own fields with the recorded nonce, and starts with `difficulty` zeros.
C7_HashOfOwnFields ==
    \A b \in DOMAIN chain :
        /\ chain[b].hash = sha256_hexdigest(JsonBlock(OwnFields(chain[b])))
        /\ StartsWithZeros(chain[b].hash, difficulty)

\* C7 amended: every block's hash is the digest of (the serialization of its
\* fields with nonce 0) followed by the decimal string of the recorded nonce,
\* and its first `difficulty` hex characters are all 0.
C7_HashOfSkeletonAndNonce ==
    \A b \in DOMAIN chain :
        /\ chain[b].hash =
              sha256_hexdigest(
                  JsonBlock([OwnFields(chain[b]) EXCEPT !.nonce = 0]) \o Str(chain[b].nonce))
        /\ StartsWithZeros(chain[b].hash, difficulty)

\* C7 witness: a block that holds a transaction was sealed at difficulty 1 with
\* a nonce that took more than one attempt.
C7_Witness ==
    /\ difficulty = 1
    /\ \E b \in DOMAIN chain : chain[b].nonce > 0 /\ chain[b].tx # <<>>

\* mine_block has just sealed a block whose only transaction is the one
\* create_tx(w, ..., rc) builds from the UTXO dict the call started from, and
\* w pays others only.
BuiltAndMined(w, rc, ts) ==
    /\ last.op = "mine_block"
    /\ chain[Len(chain)].tx # <<>>
    /\ chain[Len(chain)].tx = create_tx(w, last.before, rc, ts)
    /\ \A k \in DOMAIN rc : rc[k].address # w

\* The sum of the amounts rc sends to address a.
SentTo(rc, a) == LET To(r) == r.address = a IN SumAmounts(SelectSeq(rc, To))

\* The sum of the inputs create_tx selects for w to pay rc from the dict u.
SelectedTotal(u, w, rc) == SelectInputs(u, w, SumAmounts(rc), 1, <<>>, 0).total_in

\* C8 as claimed: when the sender's UTXOs total v and the recipients' amounts x
\* with v - x - Fee > 0, after build, add_tx and mine_block the sender's balance
\* is v - x - Fee and each recipient's balance has grown by what was sent to it.
C8_SpendBalances ==
    \A w \in Addresses, rc \in RecipientLists, ts \in Times :
        (BuiltAndMined(w, rc, ts) /\ Balance(last.before, w) - SumAmounts(rc) - Fee > 0)
            => /\ Balance(utxos, w) = Balance(last.before, w) - SumAmounts(rc) - Fee
               /\ \A k \in DOMAIN rc :
                     Balance(utxos, rc[k].address)
                         = Balance(last.before, rc[k].address) + SentTo(rc, rc[k].address)

\* C8 amended: the same, except that the sender's balance is v - x, with no
\* fee taken, when the inputs create_tx selects total exactly x.
C8_SpendBalancesAmended ==
    \A w \in Addresses, rc \in RecipientLists, ts \in Times :
        (BuiltAndMined(w, rc, ts) /\ Balance(last.before, w) - SumAmounts(rc) - Fee > 0)
            => /\ Balance(utxos, w) =
                     IF SelectedTotal(last.before, w, rc) = SumAmounts(rc)
                     THEN Balance(last.before, w) - SumAmounts(rc)
                     ELSE Balance(last.before, w) - SumAmounts(rc) - Fee
               /\ \A k \in DOMAIN rc :
                     Balance(utxos, rc[k].address)
                         = Balance(last.before, rc[k].address) + SentTo(rc, rc[k].address)

\* C8 witness: a transaction built for two recipients, with a change output,
\* has been admitted and mined alone.
C8_Witness ==
    \E w \in Addresses, rc \in RecipientLists, ts \in Times :
        /\ BuiltAndMined(w, rc, ts)
        /\ Len(rc) = 2
        /\ SelectedTotal(last.before, w, rc) - SumAmounts(rc) - Fee > 0

\* The address owns at least one entry of the dict u.
OwnsSome(u, w) == \E k \in DOMAIN u : u[k].address = w

\* C10: create_tx returns None exactly when the sender owns no UTXO, whatever
\* the amounts of the UTXOs it owns.
C10_NoneIffNothingOwned ==
    [][\A w \in Addresses, rc \in RecipientLists, ts \in Times :
          CreateTx(w, rc, ts) => (last'.out = <<>> <=> ~OwnsSome(utxos, w))]_vars

\* C9: when mine_block returns, the transactions it applied to the UTXO dict
\* are the sealed block's tx list, in order, and every transaction add_tx
\* admitted between the copy of the mempool and its clearing is still in the
\* mempool.
C9_NoMidMineAdmissions ==
    [][MineAppend =>
          /\ mine.applied = chain'[Len(chain')].tx
          /\ \A k \in DOMAIN mine.during :
                \E j \in DOMAIN mempool' : mempool'[j] = mine.during[k]]_vars

\* The sum of the amounts the dict u holds for the inputs listed.
InputsTotal(u, inputs) ==
    SumAmounts([k \in DOMAIN inputs |-> Get(u, KeyOf(inputs[k]))])

\* C11: a transaction create_tx has just returned (the UTXO dict is the one
\* the call read) has the recipients in request order as outputs, followed by
\* one change output to the sender of totalIn - totalOut - Fee when that is
\* positive, and by nothing otherwise.
C11_ChangeOutput ==
    (last.op = "create_tx" /\ last.out # <<>>)
        => \A w \in Addresses, rc \in RecipientLists, ts \in Times :
              last.out = create_tx(w, utxos, rc, ts)
                  => LET tx == last.out[1]
                         change == InputsTotal(utxos, tx.inputs) - SumAmounts(rc) - Fee
                     IN  tx.outputs = IF change > 0
                                      THEN rc \o <<[address |-> w, amount |-> change]>>
                                      ELSE rc

\* C11 witness: create_tx has returned a transaction with two recipients and
\* a change output.
C11_Witness ==
    /\ last.op = "create_tx"
    /\ last.out # <<>>
    /\ \E w \in Addresses, rc \in RecipientLists, ts \in Times :
          /\ last.out = create_tx(w, utxos, rc, ts)
          /\ Len(rc) = 2
          /\ Len(last.out[1].outputs) = 3

\* C12: the value mine_block returns is the block the call appended as the
\* last element of the chain.
C12_ReturnsSealedBlock ==
    last.op = "mine_block" => last.out = <<chain[Len(chain)]>>

\* C13: over every call (genesis, add_tx, mine_block, export_data) the chain
\* before is a prefix of the chain after, only mine_block changes its length,
\* and mine_block adds exactly one block at the end.
C13_ChainAppendOnly ==
    [][/\ Len(chain') >= Len(chain)
       /\ SubSeq(chain', 1, Len(chain)) = chain
       /\ Len(chain') # Len(chain) => last'.op = "mine_block"
       /\ last'.op = "mine_block" => Len(chain') = Len(chain) + 1]_vars

\* C13 witness: two blocks have been mined, transactions among them, and
\* export_data has run since.
C13_Witness ==
    /\ Len(chain) = 2
    /\ chain[1].tx # <<>>
    /\ last.op = "export_data"

\* C14: a create_tx call, returning a transaction or None, leaves the UTXO
\* dict, the mempool and the chain as they were.
C14_BuilderReadOnly ==
    [][last'.op = "create_tx" => (utxos' = utxos /\ mempool' = mempool /\ chain' = chain)]_vars

\* C14 witness: create_tx has returned a transaction on a ledger with a mined
\* block, live UTXOs and a pending transaction.
C14_Witness ==
    /\ last.op = "create_tx"
    /\ last.out # <<>>
    /\ chain # <<>>
    /\ utxos # <<>>
    /\ mempool # <<>>

\* C15: an export_data call leaves chain, UTXO dict and mempool as they were;
\* it writes the chain's blocks in order and, after the header, one row per
\* entry of the UTXO dict in iteration order: what it writes is fixed by
\* the chain and the UTXO dict, so two exports of one ledger state are alike.
C15_ExportIdempotent ==
    [][last'.op = "export_data" =>
          /\ chain' = chain /\ utxos' = utxos /\ mempool' = mempool
          /\ last'.out[1].chain_json
                 = <<Chr("[")>> \o Concat([k \in DOMAIN chain |-> JsonDumpBlock(chain[k])])
                       \o <<Chr("]")>>
          /\ Len(last'.out[1].utxos_csv) = Len(utxos) + 1
          /\ last'.out[1].utxos_csv[1] = CsvHeader
          /\ \A k \in DOMAIN utxos :
                last'.out[1].utxos_csv[k + 1]
                    = <<utxos[k].txid, Str(utxos[k].vout), <<Chr(utxos[k].address)>>,
                        Str(utxos[k].amount)>>]_vars

\* C15 witness: export_data has written a chain with a block and two or more
\* UTXO rows.
C15_Witness ==
    /\ last.op = "export_data"
    /\ chain # <<>>
    /\ Len(utxos) >= 2
    /\ Len(last.out[1].utxos_csv) = Len(utxos) + 1

\* The entries of the dict u that address w owns, in iteration order.
OwnedBy(u, w) == LET Mine(e) == e.address = w IN SelectSeq(u, Mine)

\* C16: the inputs of a transaction create_tx has just built are the first n
\* UTXOs the sender owns, in store order, with n >= 1 the least number whose
\* amounts sum to the requested total or more, and all the sender owns when
\* they do not cover it; none is owned by another address, none listed twice.
C16_GreedyPrefix ==
    (last.op = "create_tx" /\ last.out # <<>>)
        => \A w \in Addresses, rc \in RecipientLists, ts \in Times :
              last.out = create_tx(w, utxos, rc, ts)
                  => LET ins == last.out[1].inputs
                         owned == OwnedBy(utxos, w)
                         n == Len(ins)
                     IN  /\ n >= 1
                         /\ n <= Len(owned)
                         /\ \A k \in 1..n : ins[k] = [txid |-> owned[k].txid, vout |-> owned[k].vout]
                         /\ \/ SumAmounts(SubSeq(owned, 1, n)) >= SumAmounts(rc)
                            \/ n = Len(owned)
                         /\ \A m \in 1..(n - 1) : SumAmounts(SubSeq(owned, 1, m)) < SumAmounts(rc)
                         /\ \A k \in 1..n : Get(utxos, KeyOf(ins[k])).address = w
                         /\ \A j, k \in 1..n : j # k => ins[j] # ins[k]

\* C16 witness: create_tx has built a transaction with two inputs while the
\* sender's first UTXO alone did not cover the request.
C16_Witness ==
    /\ last.op = "create_tx"
    /\ last.out # <<>>
    /\ \E w \in Addresses, rc \in RecipientLists, ts \in Times :
          /\ last.out = create_tx(w, utxos, rc, ts)
          /\ Len(last.out[1].inputs) = 2
          /\ OwnedBy(utxos, w)[1].amount < SumAmounts(rc)

\* The string mine_block builds once, before the search: the JSON of the
\* block's timestamp, tx and miner with nonce 0.
SearchString(b) == JsonBlock([timestamp |-> b.timestamp, tx |-> b.tx, miner |-> b.miner, nonce |-> 0])

\* C17: the nonce of a mined block is the least n >= 0 for which the digest of
\* that string followed by n starts with `difficulty` zeros (0 when the
\* difficulty is 0), which is looked at whenever the chain changes; the
\* search starts at 0 and goes up by 1 per attempt; and until it has
\* succeeded the call changes none of utxos, mempool, chain.
C17_SearchOrder ==
    [][/\ chain' # chain => \A k \in DOMAIN chain' :
             /\ StartsWithZeros(sha256_hexdigest(SearchString(chain'[k]) \o Str(chain'[k].nonce)),
                                difficulty)
             /\ \A n \in 0..(chain'[k].nonce - 1) :
                   ~StartsWithZeros(sha256_hexdigest(SearchString(chain'[k]) \o Str(n)), difficulty)
             /\ difficulty = 0 => chain'[k].nonce = 0
       /\ (mine.pc = "idle" /\ mine'.pc = "pow") => mine'.block.nonce = 0
       /\ (mine.pc = "pow" /\ mine'.pc = "pow") => mine'.block.nonce = mine.block.nonce + 1
       /\ (mine.pc = "pow" /\ mine'.pc = "apply") => mine'.block.nonce = mine.block.nonce
       /\ mine'.pc = "pow" => (utxos' = utxos /\ mempool' = mempool /\ chain' = chain)
       /\ mine.pc = "pow" => (utxos' = utxos /\ mempool' = mempool /\ chain' = chain)]_vars

\* C17 witness: a search over a block with a transaction has just succeeded
\* at a nonce above 1, and the UTXO dict is still the one the call began with.
C17_Witness ==
    /\ mine.pc = "apply"
    /\ mine.k = 1
    /\ mine.block.nonce > 1
    /\ mine.block.tx # <<>>
    /\ utxos = mine.before
    /\ mempool = mine.block.tx

\* C18: between calls, every transaction in the mempool passes verify_tx
\* against the UTXO dict as it is now.
C18_MempoolStaysValid ==
    \A k \in DOMAIN mempool : verify_tx(utxos, mempool[k])

\* C19: a genesis(w, amount) call on a chain of n blocks writes the entry keyed
\* ("genesis" + str(n + 1), 0) and changes nothing else, so that the UTXO dict
\* has one entry more and its total value has grown by amount.
C19_GenesisAddsUtxo ==
    [][\A w \in Addresses, amount \in GenesisAmounts :
          Genesis(w, amount)
              => /\ Has(utxos', <<GenesisTxid(Len(chain) + 1), 0>>)
                 /\ Get(utxos', <<GenesisTxid(Len(chain) + 1), 0>>).amount = amount
                 /\ chain' = chain /\ mempool' = mempool
                 /\ Len(utxos') = Len(utxos) + 1
                 /\ TotalValue(utxos') = TotalValue(utxos) + amount]_vars

\* Every entry of the dict v is an entry of the dict u or output idx of one
\* of the transactions txs, under (txid, idx), with its address and amount.
OnlyDeclaredOutputs(u, v, txs) ==
    \A k \in DOMAIN v :
        \/ \E j \in DOMAIN u : u[j] = v[k]
        \/ \E t \in DOMAIN txs : \E i \in DOMAIN txs[t].outputs :
              v[k] = [txid |-> txs[t].txid, vout |-> i - 1,
                      address |-> txs[t].outputs[i].address,
                      amount |-> txs[t].outputs[i].amount]

\* What C20 says of every mine_block call but the fee: the block appended
\* holds the mempool, the call inserts nothing but declared outputs, and on an
\* empty mempool it leaves the UTXO dict alone and appends a block without tx.
NoReward ==
    /\ Len(chain') = Len(chain) + 1
    /\ chain'[Len(chain')].tx = mempool
    /\ OnlyDeclaredOutputs(utxos, utxos', mempool)
    /\ mempool = <<>> => (utxos' = utxos /\ chain'[Len(chain')].tx = <<>>)

==========================================================================
